---- MODULE Spec2Model ----
(***************************************************************************)
(* Model of the ledger-rs prototype: the line-oriented Parser              *)
(* (src/src/parser.rs), the Amount type (src/src/amount.rs) and the        *)
(* Balancer finalize_indexed (src/src/xact.rs), over the Journal arenas.   *)
(*                                                                         *)
(* Indices are 0-based as in the Rust code; a Vec v is a sequence and      *)
(* v[i] of the code is Get(v, i).  Option<T> is a sequence of length 0     *)
(* (None) or 1 (Some).  Text that the code parses is a sequence of         *)
(* one-character strings.                                                  *)
(***************************************************************************)
EXTENDS Integers, Sequences, FiniteSets, TLC

VARIABLES
    journal,        \* Parser.journal: the four arenas
    pc,             \* "TopLevel" (loop of parse), "InXact" (loop of xact_directive),
                    \* "Done" (read returned parser.journal), "Panicked"
    cur,            \* xact_index of the running xact_directive
    panicKind,      \* the fatal condition that ended the parse, or "none"
    linesRead,      \* number of lines read_line has returned
    last,           \* what the last read returned (first character or token)
    cited,          \* per Post, in arena order: the tokens of its input line
    inferred,       \* PostIndex values whose amount finalize_indexed has set
    finCount,       \* per Xact: number of finalize_indexed calls on it
    ended,          \* XactIndex values whose body was ended by a blank line or end of stream
    ioErrors,       \* number of failed reads
    readAfterFail,  \* a read was issued after a failed read
    eofSeen,        \* read_line has returned Ok(0)
    hdrs,           \* per Xact, in arena order: the tokens of its header line
    call            \* a call of a pure function: [op, arg, res, done]; <<>> while parsing

parserVars == <<journal, pc, cur, panicKind, linesRead, last,
                cited, inferred, finCount, ended, ioErrors, readAfterFail, eofSeen, hdrs>>

vars == <<journal, pc, cur, panicKind, linesRead, last,
          cited, inferred, finCount, ended, ioErrors, readAfterFail, eofSeen, hdrs, call>>

\* ------------------------------------------------------------------ bounds
MaxLines == 6
MaxPosts == 3
MaxXacts == 2
MaxIoErrors == 1

\* ------------------------------------------------------------ Option, Vec
None == <<>>
Some(v) == <<v>>
IsSome(o) == o # <<>>
IsNone(o) == o = <<>>
Unwrap(o) == o[1]

Get(v, i) == v[i + 1]
Indices(v) == 0 .. (Len(v) - 1)
Push(v, e) == Append(v, e)

\* ---------------------------------------------------------------- Decimal
\* rust_decimal::Decimal: value m / 10^s, s the number of decimal places.
RECURSIVE Pow10(_)
Pow10(n) == IF n = 0 THEN 1 ELSE 10 * Pow10(n - 1)

Max(a, b) == IF a >= b THEN a ELSE b

Dec(m, s) == [m |-> m, s |-> s]

\* a + b, at the larger of the two scales
DecAdd(a, b) ==
    LET s == Max(a.s, b.s)
    IN  Dec(a.m * Pow10(s - a.s) + b.m * Pow10(s - b.s), s)

\* a * (-1)
DecNeg(a) == Dec(0 - a.m, a.s)

DecIsZero(a) == a.m = 0

\* Decimal's PartialEq compares values, not representations
DecEq(a, b) == a.m * Pow10(b.s) = b.m * Pow10(a.s)

Digits == {"0", "1", "2", "3", "4", "5", "6", "7", "8", "9"}

DigitVal(c) ==
    CASE c = "0" -> 0 [] c = "1" -> 1 [] c = "2" -> 2 [] c = "3" -> 3
      [] c = "4" -> 4 [] c = "5" -> 5 [] c = "6" -> 6 [] c = "7" -> 7
      [] c = "8" -> 8 [] c = "9" -> 9

\* Scan of the unsigned part of a literal: st = [m, s, dot, n, ok] is the
\* mantissa so far, the decimals so far, whether '.' was seen, the number of
\* digits seen and whether every character was accepted.
RECURSIVE ScanDigits(_, _)
ScanDigits(t, st) ==
    IF t = <<>> \/ ~st.ok THEN st
    ELSE LET c == Head(t)
         IN  IF c \in Digits
             THEN ScanDigits(Tail(t),
                    [st EXCEPT !.m = 10 * st.m + DigitVal(c),
                               !.s = IF st.dot THEN st.s + 1 ELSE st.s,
                               !.n = st.n + 1])
             ELSE IF c = "." /\ ~st.dot
             THEN ScanDigits(Tail(t), [st EXCEPT !.dot = TRUE])
             ELSE [st EXCEPT !.ok = FALSE]

\* Decimal::from_str_exact: optional sign, digits, at most one '.';
\* None for anything else.
DecimalFromStrExact(t) ==
    LET neg  == t # <<>> /\ Head(t) = "-"
        sgn  == t # <<>> /\ Head(t) \in {"-", "+"}
        body == IF sgn THEN Tail(t) ELSE t
        st   == ScanDigits(body, [m |-> 0, s |-> 0, dot |-> FALSE, n |-> 0, ok |-> TRUE])
    IN  IF st.ok /\ st.n > 0
        THEN Some(Dec(IF neg THEN 0 - st.m ELSE st.m, st.s))
        ELSE None

\* ----------------------------------------------------------------- Amount
Amount(q, ci) == [quantity |-> q, commodity_index |-> ci]

\* A plausible slip: a text that is not a literal parses as zero
AmountParse_ZeroForBad(text, ci) ==
    IF text = <<>> THEN None
    ELSE LET q == DecimalFromStrExact(text)
         IN  IF IsNone(q) THEN Some(Amount(Dec(0, 0), ci)) ELSE Some(Amount(Unwrap(q), ci))

\* A plausible slip: the parsed amount carries no commodity
AmountParse_NoIndex(text, ci) ==
    IF text = <<>> THEN None
    ELSE LET q == DecimalFromStrExact(text)
         IN  IF IsNone(q) THEN None ELSE Some(Amount(Unwrap(q), None))

\* Amount::parse(amount, commodity_index)
AmountParse(text, ci) ==
    IF text = <<>> THEN None
    ELSE LET q == DecimalFromStrExact(text)
         IN  IF IsNone(q) THEN None ELSE Some(Amount(Unwrap(q), ci))

\* Amount::copy_from
CopyFrom(other) == Amount(other.quantity, other.commodity_index)

\* The panic condition of Amount::add, of Add::add and of AddAssign::add_assign
AddPanics(self, other) == self.commodity_index # other.commodity_index

\* Amount::add(&mut self, other): the new value of self (when it does not panic)
AmountAdd(self, other) ==
    IF DecIsZero(other.quantity) THEN self
    ELSE Amount(DecAdd(self.quantity, other.quantity), self.commodity_index)

\* impl Add for Amount (when it does not panic)
AddOp(self, rhs) == Amount(DecAdd(self.quantity, rhs.quantity), self.commodity_index)

\* impl AddAssign for Amount (when it does not panic)
AddAssignOp(self, other) == Amount(DecAdd(self.quantity, other.quantity), self.commodity_index)

\* Amount::inverse
Inverse(a) == Amount(DecNeg(a.quantity), a.commodity_index)

\* Amount::is_null
IsNull(a) == IF DecIsZero(a.quantity) THEN IsNone(a.commodity_index) ELSE FALSE

\* Decimal::is_sign_positive and Decimal::set_sign_negative(true); a zero
\* keeps its value under either sign
DecIsSignPositive(q) == q.m >= 0
DecSetSignNegative(q) == Dec(IF q.m > 0 THEN 0 - q.m ELSE q.m, q.s)

\* Amount::abs
AmountAbs(self) ==
    IF DecIsSignPositive(self.quantity)
    THEN Amount(DecSetSignNegative(self.quantity), self.commodity_index)
    ELSE self

\* The todo!() of Div::div: one of the quantities is zero
DivPanics(self, rhs) == DecIsZero(self.quantity) \/ DecIsZero(rhs.quantity)

\* A plausible slip: the result always takes the left operand's commodity
DivCommodity_Left(self, rhs) == self.commodity_index

\* The commodity_index of the result of Div::div
DivCommodity(self, rhs) ==
    IF IsNone(self.commodity_index) THEN rhs.commodity_index ELSE self.commodity_index

\* Largest number of decimal places of a quotient
DivPrecision == 4

AbsInt(n) == IF n < 0 THEN 0 - n ELSE n

\* |a| / |b| is a whole number of units of 10^-s
DivExactAt(a, b, s) == (AbsInt(a.m) * Pow10(s + b.s - a.s)) % AbsInt(b.m) = 0

\* Number of decimal places of a / b: the least one, from a.s - b.s on, at
\* which the quotient is exact, or DivPrecision when there is none
DivScale(a, b) ==
    LET s0 == Max(0, a.s - b.s)
        ex == {s \in s0 .. DivPrecision : DivExactAt(a, b, s)}
    IN  IF ex = {} THEN DivPrecision
        ELSE CHOOSE s \in ex : \A r \in ex : s <= r

\* Decimal / Decimal, b not zero: the exact quotient when it has at most
\* DivPrecision decimal places, else one of the two neighbours of the quotient
\* at DivPrecision decimal places
DecDiv(a, b) ==
    LET s   == DivScale(a, b)
        t   == (AbsInt(a.m) * Pow10(s + b.s - a.s)) \div AbsInt(b.m)
        sgn == IF (a.m < 0) = (b.m < 0) THEN 1 ELSE 0 - 1
    IN  IF DivExactAt(a, b, s) THEN {Dec(sgn * t, s)}
        ELSE {Dec(sgn * t, s), Dec(sgn * (t + 1), s)}

\* impl Div for Amount (when it does not panic): the possible results
DivOp(self, rhs) ==
    {Amount(q, DivCommodity(self, rhs)) : q \in DecDiv(self.quantity, rhs.quantity)}

\* ---------------------------------------------------------------- Journal
\* Journal::new(): four empty arenas
NewJournal == [accounts |-> <<>>, xacts |-> <<>>, posts |-> <<>>, commodities |-> <<>>]

\* Commodity::parse(token): no commodity for an empty token
CommodityParse(token) == IF token = "" THEN None ELSE Some([symbol |-> token])

\* Account::parse(token)
AccountParse(token) == [name |-> token, post_indices |-> <<>>]

\* Index of the first position of the sequence of keys that holds key, or
\* Len(keys) when none does
FirstIndex(keys, key) ==
    IF \E i \in Indices(keys) : Get(keys, i) = key
    THEN CHOOSE i \in Indices(keys) :
            Get(keys, i) = key /\ \A k \in Indices(keys) : Get(keys, k) = key => i <= k
    ELSE Len(keys)

\* Journal::add_account(account): [journal, index]; find-or-create by name
AddAccount(j, account) ==
    LET i == FirstIndex([k \in 1 .. Len(j.accounts) |-> j.accounts[k].name], account.name)
    IN  [journal |-> IF i = Len(j.accounts)
                     THEN [j EXCEPT !.accounts = Push(j.accounts, account)]
                     ELSE j,
         index |-> i]

\* Journal::add_commodity(commodity): [journal, index]; find-or-create by symbol
AddCommodity(j, commodity) ==
    LET i == FirstIndex([k \in 1 .. Len(j.commodities) |-> j.commodities[k].symbol],
                        commodity.symbol)
    IN  [journal |-> IF i = Len(j.commodities)
                     THEN [j EXCEPT !.commodities = Push(j.commodities, commodity)]
                     ELSE j,
         index |-> i]

\* Journal::add_xact(xact): [journal, index]; appends
AddXact(j, xact) ==
    [journal |-> [j EXCEPT !.xacts = Push(j.xacts, xact)], index |-> Len(j.xacts)]

\* Journal::add_post(post): [journal, index]; appends
AddPost(j, post) ==
    [journal |-> [j EXCEPT !.posts = Push(j.posts, post)], index |-> Len(j.posts)]

\* Post::new(account_index, xact_index, amount, cost)
PostNew(account_index, xact_index, amount, cost) ==
    [account_index |-> account_index, xact_index |-> xact_index,
     amount |-> amount, cost |-> cost]

\* ------------------------------------------------------------------- Xact
\* parse_date: None stands for the panic of expect("date parsed")
ParseDate(date_str) ==
    CASE date_str = "2023-04-10" -> Some([y |-> 2023, m |-> 4, d |-> 10])
      [] date_str = "2023-05-02" -> Some([y |-> 2023, m |-> 5, d |-> 2])
      [] OTHER -> None

\* Xact::create panics when a non-empty date text is not a date
XactCreatePanics(date, aux_date) ==
    \/ date # "" /\ IsNone(ParseDate(date))
    \/ aux_date # "" /\ IsNone(ParseDate(aux_date))

\* A plausible slip: the payee is stored as given, without the default
XactCreate_NoDefault(date, aux_date, payee, note) ==
    [date     |-> IF date = "" THEN None ELSE ParseDate(date),
     aux_date |-> IF aux_date = "" THEN None ELSE ParseDate(aux_date),
     payee    |-> payee,
     note     |-> IF note = "" THEN None ELSE Some(note),
     posts    |-> <<>>]

\* Xact::create(date, aux_date, payee, note)
XactCreate(date, aux_date, payee, note) ==
    [date     |-> IF date = "" THEN None ELSE ParseDate(date),
     aux_date |-> IF aux_date = "" THEN None ELSE ParseDate(aux_date),
     payee    |-> IF payee = "" THEN "Unknown Payee" ELSE payee,
     note     |-> IF note = "" THEN None ELSE Some(note),
     posts    |-> <<>>]

\* ------------------------------------------------------------- parse_post
\* tokens = [account, quantity, commodity, cost_quantity, cost_commodity],
\* the five tokens scanner::scan_post returns for the line.

\* A plausible slip: the index is taken from the length of the pool after the call
InternCommodity_LastIndex(j, token) ==
    LET c == CommodityParse(token)
    IN  IF IsSome(c)
        THEN LET r == AddCommodity(j, Unwrap(c))
             IN  [journal |-> r.journal, index |-> Some(Len(r.journal.commodities) - 1)]
        ELSE [journal |-> j, index |-> None]

\* Commodity::parse(token), then journal.add_commodity when there is one:
\* [journal, index] with index an Option<CommodityIndex>
InternCommodity(j, token) ==
    LET c == CommodityParse(token)
    IN  IF IsSome(c)
        THEN LET r == AddCommodity(j, Unwrap(c))
             IN  [journal |-> r.journal, index |-> Some(r.index)]
        ELSE [journal |-> j, index |-> None]

\* A plausible slip: the back-reference of the Account is not recorded
LinkAccount_Skip(j, account_index, post_index) == j

\* account.post_indices.push(post_index)
LinkAccount(j, account_index, post_index) ==
    [j EXCEPT !.accounts[account_index + 1].post_indices =
                 Push(j.accounts[account_index + 1].post_indices, post_index)]

\* A plausible slip: xact.posts.insert(0, post_index)
LinkXact_Front(j, xact_index, post_index) ==
    [j EXCEPT !.xacts[xact_index + 1].posts =
                 <<post_index>> \o j.xacts[xact_index + 1].posts]

\* xact.posts.push(post_index)
LinkXact(j, xact_index, post_index) ==
    [j EXCEPT !.xacts[xact_index + 1].posts =
                 Push(j.xacts[xact_index + 1].posts, post_index)]

ParsePost(j, tokens, xact_index) ==
    LET ra == AddAccount(j, AccountParse(tokens.account))
        account_index == ra.index
        rc1 == InternCommodity(ra.journal, tokens.commodity)
        amount == AmountParse(tokens.quantity, rc1.index)
        rc2 == InternCommodity(rc1.journal, tokens.cost_commodity)
        cost == AmountParse(tokens.cost_quantity, rc2.index)
        rp == AddPost(rc2.journal, PostNew(account_index, xact_index, amount, cost))
        post_index == rp.index
    IN  LinkXact(LinkAccount(rp.journal, account_index, post_index), xact_index, post_index)

\* -------------------------------------------------------- finalize_indexed
\* One iteration of the "Balance" loop; st = [balance, null_post, panic]
BalanceStep(j, st, post_index) ==
    LET post == Get(j.posts, post_index)
    IN  IF st.panic # "none" THEN st
        ELSE IF IsSome(post.amount)
        THEN IF IsNone(st.balance)
             THEN [st EXCEPT !.balance = Some(CopyFrom(Unwrap(post.amount)))]
             ELSE IF AddPanics(Unwrap(st.balance), Unwrap(post.amount))
                  THEN [st EXCEPT !.panic = "CommodityMismatch"]
                  ELSE [st EXCEPT !.balance =
                           Some(AmountAdd(Unwrap(st.balance), Unwrap(post.amount)))]
        ELSE IF IsSome(st.null_post)
        THEN [st EXCEPT !.panic = "DoubleNullPost"]
        ELSE [st EXCEPT !.null_post = Some(post_index)]

RECURSIVE BalanceLoop(_, _, _)
BalanceLoop(j, st, posts) ==
    IF posts = <<>> THEN st
    ELSE BalanceLoop(j, BalanceStep(j, st, Head(posts)), Tail(posts))

\* A plausible slip: the inferred amount is stored in the first Post of the
\* Xact instead of the one without an amount
ResolveNullPost_First(j, xact_index, null_post, balance) ==
    [j EXCEPT !.posts[Get(j.xacts, xact_index).posts[1] + 1].amount = Some(Inverse(balance))]

\* "Handle null-amount post": post.amount = Some(balance.inverse())
ResolveNullPost(j, xact_index, null_post, balance) ==
    [j EXCEPT !.posts[null_post + 1].amount = Some(Inverse(balance))]

\* finalize_indexed(xact_index, journal): [panic, journal, null_post];
\* panic is "none" or the fatal condition that ended the run.
FinalizeIndexed(j, xact_index) ==
    LET xact == Get(j.xacts, xact_index)
        st == BalanceLoop(j, [balance |-> None, null_post |-> None, panic |-> "none"],
                          xact.posts)
    IN  IF st.panic # "none"
        THEN [panic |-> st.panic, journal |-> j, null_post |-> None]
        ELSE IF IsSome(st.null_post)
        THEN IF IsNone(st.balance)
             THEN [panic |-> "UnwrapNone", journal |-> j, null_post |-> None]
             ELSE [panic |-> "none",
                   journal |-> ResolveNullPost(j, xact_index, Unwrap(st.null_post),
                                               Unwrap(st.balance)),
                   null_post |-> st.null_post]
        ELSE [panic |-> "none", journal |-> j, null_post |-> None]

\* ------------------------------------------------------------------ input
\* Posting lines, as the tokens scan_post returns for them
Tok(a, q, c, cq, cc) ==
    [account |-> a, quantity |-> q, commodity |-> c, cost_quantity |-> cq, cost_commodity |-> cc]

PostLines ==
    { Tok("Expenses", <<"2", "0">>, "", <<>>, ""),                  \*   Expenses  20
      Tok("Assets", <<>>, "", <<>>, ""),                            \*   Assets
      Tok("Assets", <<"-", "5", ".", "5", "0">>, "", <<>>, ""),     \*   Assets  -5.50
      Tok("Expenses", <<"2", "0">>, "EUR", <<>>, ""),               \*   Expenses  20 EUR
      Tok("Assets", <<"3", "0">>, "USD", <<>>, ""),                 \*   Assets  30 USD
      Tok("Assets:Investment", <<"2", "0">>, "VEUR", <<"1", "0">>, "EUR"),
                                                                    \*   Assets:Investment  20 VEUR @ 10 EUR
      Tok("Income", <<" ">>, "", <<>>, "") }                        \*   amount text " "

\* Transaction headers, as the tokens tokenize_xact_header returns for them
Hdr(d, a, p, n) == [date |-> d, aux_date |-> a, payee |-> p, note |-> n]

Headers ==
    { Hdr("2023-04-10", "", "Supermarket", ""),
      Hdr("2023-05-02", "2023-04-10", "", "Note"),
      Hdr("2023", "", "Payee", "") }

\* ------------------------------------------------------------------- Init
ParserInit ==
    /\ journal = NewJournal
    /\ pc = "TopLevel"
    /\ cur = 0
    /\ panicKind = "none"
    /\ linesRead = 0
    /\ last = "start"
    /\ cited = <<>>
    /\ inferred = {}
    /\ finCount = <<>>
    /\ ended = {}
    /\ ioErrors = 0
    /\ readAfterFail = FALSE
    /\ eofSeen = FALSE
    /\ hdrs = <<>>

Init ==
    /\ ParserInit
    /\ call = <<>>

ioFailed == ioErrors > 0

\* read_line returned Ok(n), n > 0, with a line whose first character is c
GotLine(c) ==
    /\ ~eofSeen
    /\ linesRead < MaxLines
    /\ linesRead' = linesRead + 1
    /\ last' = c
    /\ readAfterFail' = (readAfterFail \/ ioFailed)
    /\ UNCHANGED <<ioErrors, eofSeen>>

Panic(kind) ==
    /\ pc' = "Panicked"
    /\ panicKind' = kind

\* ---------------------------------------------- Parser::parse (top level)
\* A plausible slip: '*' and '|' are missing from the match arm of the
\* comments and reach the catch-all arm
TopComment_TwoChars ==
    /\ pc = "TopLevel"
    /\ \E c \in {";", "#", "*", "|"} :
         /\ GotLine(c)
         /\ IF c \in {";", "#"}
            THEN UNCHANGED <<pc, panicKind>>
            ELSE Panic("Todo")
    /\ UNCHANGED <<journal, cur, cited, inferred, finCount, ended>>
    /\ UNCHANGED <<hdrs, call>>

\* read_next_directive: comment line, ignored
TopComment ==
    /\ pc = "TopLevel"
    /\ \E c \in {";", "#", "*", "|"} : GotLine(c)
    /\ UNCHANGED <<journal, pc, cur, panicKind, cited, inferred, finCount, ended>>
    /\ UNCHANGED <<hdrs, call>>

\* read_next_directive: '-' option directive, nothing done
TopOption ==
    /\ pc = "TopLevel"
    /\ GotLine("-")
    /\ UNCHANGED <<journal, pc, cur, panicKind, cited, inferred, finCount, ended>>
    /\ UNCHANGED <<hdrs, call>>

\* read_next_directive: the buffer is "\r\n"
TopBlankCRLF ==
    /\ pc = "TopLevel"
    /\ GotLine("\r\n")
    /\ UNCHANGED <<journal, pc, cur, panicKind, cited, inferred, finCount, ended>>
    /\ UNCHANGED <<hdrs, call>>

\* read_next_directive: ' ', '\t', 'P' and every other first character
\* (that of the line "\n" included) end in todo!()
TopUnhandled ==
    /\ pc = "TopLevel"
    /\ \E c \in {" ", "\t", "P", "\n", "x"} : GotLine(c)
    /\ Panic("Todo")
    /\ UNCHANGED <<journal, cur, cited, inferred, finCount, ended>>
    /\ UNCHANGED <<hdrs, call>>

\* A plausible slip: the new Xact is inserted in front of the arena
XactDirective_Front(j, tokens) ==
    [journal |-> [j EXCEPT !.xacts =
                     <<XactCreate(tokens.date, tokens.aux_date, tokens.payee, tokens.note)>>
                       \o j.xacts],
     index |-> 0]

\* xact_directive, up to the loop: [journal, index]
XactDirective(j, tokens) ==
    AddXact(j, XactCreate(tokens.date, tokens.aux_date, tokens.payee, tokens.note))

\* read_next_directive: a digit starts a transaction
TopHeader ==
    /\ pc = "TopLevel"
    /\ Len(journal.xacts) < MaxXacts
    /\ GotLine("2")
    /\ \E h \in Headers :
         IF XactCreatePanics(h.date, h.aux_date)
         THEN /\ Panic("DateParse")
              /\ UNCHANGED <<journal, cur, finCount, hdrs>>
         ELSE LET r == XactDirective(journal, h)
              IN  /\ journal' = r.journal
                  /\ cur' = r.index
                  /\ finCount' = Append(finCount, 0)
                  /\ hdrs' = Append(hdrs, h)
                  /\ pc' = "InXact"
                  /\ UNCHANGED panicKind
    /\ UNCHANGED <<cited, inferred, ended>>
    /\ UNCHANGED call

\* parse: read_line returned Ok(0); read returns parser.journal
TopEOF ==
    /\ pc = "TopLevel"
    /\ pc' = "Done"
    /\ eofSeen' = TRUE
    /\ last' = "eof"
    /\ readAfterFail' = (readAfterFail \/ ioFailed)
    /\ UNCHANGED <<journal, cur, panicKind, linesRead, cited, inferred, finCount, ended, ioErrors>>
    /\ UNCHANGED <<hdrs, call>>

\* parse: read_line returned Err; read returns parser.journal
TopIoError ==
    /\ pc = "TopLevel"
    /\ ~eofSeen
    /\ ioErrors < MaxIoErrors
    /\ pc' = "Done"
    /\ ioErrors' = ioErrors + 1
    /\ last' = "err"
    /\ readAfterFail' = (readAfterFail \/ ioFailed)
    /\ UNCHANGED <<journal, cur, panicKind, linesRead, cited, inferred, finCount, ended, eofSeen>>
    /\ UNCHANGED <<hdrs, call>>

\* ------------------------------------- Parser::xact_directive (body loop)
\* A line starting with ' ' that is not a note: parse_post, then
\* finalize_indexed at the end of the same iteration of the loop
BodyPost ==
    /\ pc = "InXact"
    /\ Len(journal.posts) < MaxPosts
    /\ GotLine(" ")
    /\ \E tokens \in PostLines :
         LET j1 == ParsePost(journal, tokens, cur)
             f  == FinalizeIndexed(j1, cur)
         IN  /\ journal' = f.journal
             /\ cited' = Append(cited, tokens)
             /\ finCount' = [finCount EXCEPT ![cur + 1] = @ + 1]
             /\ inferred' = IF IsSome(f.null_post)
                            THEN inferred \cup {Unwrap(f.null_post)}
                            ELSE inferred
             /\ IF f.panic # "none"
                THEN Panic(f.panic)
                ELSE UNCHANGED <<pc, panicKind>>
    /\ UNCHANGED <<cur, ended>>
    /\ UNCHANGED <<hdrs, call>>

\* A line starting with ' ' whose first non-blank character is ';'
BodyNote ==
    /\ pc = "InXact"
    /\ GotLine(" ;")
    /\ Panic("Todo")
    /\ UNCHANGED <<journal, cur, cited, inferred, finCount, ended>>
    /\ UNCHANGED <<hdrs, call>>

\* A line starting with '\r': leaves the loop
BodyBlankCRLF ==
    /\ pc = "InXact"
    /\ GotLine("\r\n")
    /\ pc' = "TopLevel"
    /\ ended' = ended \cup {cur}
    /\ UNCHANGED <<journal, cur, panicKind, cited, inferred, finCount>>
    /\ UNCHANGED <<hdrs, call>>

\* Any other first character (that of the line "\n" included)
BodyUnhandled ==
    /\ pc = "InXact"
    /\ \E c \in {"\n", "\t", "2", ";"} : GotLine(c)
    /\ Panic("ShouldNotHappen")
    /\ UNCHANGED <<journal, cur, cited, inferred, finCount, ended>>
    /\ UNCHANGED <<hdrs, call>>

\* read_line returned Ok(0): leaves the loop, back to the loop of parse
BodyEOF ==
    /\ pc = "InXact"
    /\ pc' = "TopLevel"
    /\ eofSeen' = TRUE
    /\ last' = "eof"
    /\ ended' = ended \cup {cur}
    /\ readAfterFail' = (readAfterFail \/ ioFailed)
    /\ UNCHANGED <<journal, cur, panicKind, linesRead, cited, inferred, finCount, ioErrors>>
    /\ UNCHANGED <<hdrs, call>>

\* read_line returned Err: leaves the loop, back to the loop of parse
BodyIoError ==
    /\ pc = "InXact"
    /\ ~eofSeen
    /\ ioErrors < MaxIoErrors
    /\ pc' = "TopLevel"
    /\ ioErrors' = ioErrors + 1
    /\ last' = "err"
    /\ readAfterFail' = (readAfterFail \/ ioFailed)
    /\ UNCHANGED <<journal, cur, panicKind, linesRead, cited, inferred, finCount, ended, eofSeen>>
    /\ UNCHANGED <<hdrs, call>>

Next ==
    \/ TopComment
    \/ TopOption
    \/ TopBlankCRLF
    \/ TopUnhandled
    \/ TopHeader
    \/ TopEOF
    \/ TopIoError
    \/ BodyPost
    \/ BodyNote
    \/ BodyBlankCRLF
    \/ BodyUnhandled
    \/ BodyEOF
    \/ BodyIoError

Spec == Init /\ [][Next]_vars

\* ------------------------------------------------------ parse_xact_header
\* Text is a sequence of one-character strings; positions are the 0-based
\* byte offsets of the code.

MaxHdrLen == 7

\* &line[b..e]
Slice(line, b, e) == SubSeq(line, b + 1, e)

\* line[from..].find(c in set), as an offset into line: Option<usize>
RECURSIVE FindChar(_, _, _)
FindChar(line, from, set) ==
    IF from >= Len(line) THEN None
    ELSE IF Get(line, from) \in set THEN Some(from)
    ELSE FindChar(line, from + 1, set)

\* line[from..].find("  ;"), as an offset into line: Option<usize>
RECURSIVE FindSep(_, _)
FindSep(line, from) ==
    IF from + 3 > Len(line) THEN None
    ELSE IF Slice(line, from, from + 3) = <<" ", " ", ";">> THEN Some(from)
    ELSE FindSep(line, from + 1)

Whitespace == {" ", "\t", "\n", "\r"}

RECURSIVE TrimStart(_)
TrimStart(t) == IF t # <<>> /\ Head(t) \in Whitespace THEN TrimStart(Tail(t)) ELSE t

RECURSIVE TrimEnd(_)
TrimEnd(t) ==
    IF t # <<>> /\ t[Len(t)] \in Whitespace THEN TrimEnd(SubSeq(t, 1, Len(t) - 1)) ELSE t

\* str::trim
Trim(t) == TrimEnd(TrimStart(t))

\* A plausible slip: only ' ' ends the date
DateEnd_SpaceOnly(line) == FindChar(line, 0, {" "})

\* line.find(|c| c == '=' || c == ' ')
DateEnd(line) == FindChar(line, 0, {"=", " "})

\* "aux date": [aux_date, end] for the terminator at offset index
AuxDate(line, index) ==
    IF Get(line, index) = "="
    THEN LET begin == index + 1
             sp == FindChar(line, begin, {" "})
             end == IF IsSome(sp) THEN Unwrap(sp) ELSE Len(line)
         IN  [aux_date |-> Slice(line, begin, end), end |-> end]
    ELSE [aux_date |-> <<>>, end |-> index]

\* A plausible slip: the note starts 2 characters after the separator's position
NoteOf_Skip2(line, end) ==
    IF Slice(line, end, Len(line)) = <<>> THEN <<>>
    ELSE Trim(Slice(line, end + 2, Len(line)))

\* "Note": the text from 3 characters after end, trimmed; empty at end of line
NoteOf(line, end) ==
    IF Slice(line, end, Len(line)) = <<>> THEN <<>>
    ELSE Trim(Slice(line, end + 3, Len(line)))

HeaderPanic == [panic |-> TRUE, tokens |-> <<>>]
HeaderOk(date, aux_date, payee, note) ==
    [panic |-> FALSE, tokens |-> <<date, aux_date, payee, note>>]

\* parse_xact_header(line): [panic, tokens]; panic for the empty line and
\* for a slice that starts past the end of the line
ParseXactHeader(line) ==
    IF line = <<>> THEN HeaderPanic
    ELSE LET t == DateEnd(line)
         IN  IF IsNone(t) THEN HeaderOk(line, <<>>, <<>>, <<>>)
             ELSE LET index == Unwrap(t)
                      date == Slice(line, 0, index)
                      aux == AuxDate(line, index)
                      begin == aux.end
                      sep == FindSep(line, begin)
                  IN  IF IsSome(sep)
                      THEN HeaderOk(date, aux.aux_date,
                                    Trim(Slice(line, begin, Unwrap(sep))),
                                    NoteOf(line, Unwrap(sep)))
                      ELSE IF begin + 1 > Len(line) THEN HeaderPanic
                      ELSE HeaderOk(date, aux.aux_date,
                                    Trim(Slice(line, begin + 1, Len(line))),
                                    NoteOf(line, Len(line)))

\* Characters of the generated header lines
HdrAlphabet == {"1", "=", " ", ";"}

\* The header lines of the tests of parser2.rs
Chars5_01 == <<"2", "0", "2", "3", "-", "0", "5", "-", "0", "1">>
Chars5_02 == <<"2", "0", "2", "3", "-", "0", "5", "-", "0", "2">>
TestHeaderLines ==
    { Chars5_01 \o <<" ", "P", "a", "y", "e", "e", " ", " ", ";", " ", "N", "o", "t", "e">>,
      Chars5_02 \o <<"=">> \o Chars5_01
         \o <<" ", "P", "a", "y", "e", "e", " ", " ", ";", " ", "N", "o", "t", "e">>,
      Chars5_01 \o <<" ", "P", "a", "y", "e", "e">>,
      Chars5_01 \o <<" ", " ", ";", " ", "N", "o", "t", "e">>,
      Chars5_01,
      Chars5_02 \o <<"=">> \o Chars5_01 }

HeaderLines ==
    (UNION {[1 .. n -> HdrAlphabet] : n \in 1 .. MaxHdrLen}) \cup TestHeaderLines

HeaderInit ==
    /\ ParserInit
    /\ call \in {[op |-> "parse_xact_header", arg |-> l, res |-> HeaderPanic, done |-> FALSE] :
                   l \in HeaderLines}

\* One call of parse_xact_header on the line
TokenizeHeader ==
    /\ call.op = "parse_xact_header"
    /\ ~call.done
    /\ call' = [call EXCEPT !.res = ParseXactHeader(call.arg), !.done = TRUE]
    /\ UNCHANGED parserVars

HeaderNext == TokenizeHeader

HeaderSpec == HeaderInit /\ [][HeaderNext]_vars

\* ------------------------------------------------- Amount::parse and Div
MaxAmtLen == 4
MaxDivMant == 3

AmtAlphabet == {"0", "2", "-", "+", ".", " "}

\* The amount texts of the tests of parser.rs
TestAmountTexts ==
    { <<"2", "0">>,
      <<"-", "2", "0">>,
      <<"-", "2", "0", "0", "0", "0", ".", "0", "0">>,
      <<"-", "1", "0", "0", "0", "0", "0", "0", ".", "0", "0">> }

AmountTexts ==
    (UNION {[1 .. n -> AmtAlphabet] : n \in 0 .. MaxAmtLen}) \cup TestAmountTexts

CommodityIndexes == {None, Some(0), Some(1)}

\* The operands of test_division and small amounts around zero
DivOperands ==
    {Amount(Dec(m, s), ci) : m \in (0 - MaxDivMant) .. MaxDivMant, s \in 0 .. 1,
                             ci \in CommodityIndexes}
      \cup {Amount(Dec(10, 0), Some(3)), Amount(Dec(5, 0), Some(3))}

AmountInit ==
    /\ ParserInit
    /\ \/ call \in {[op |-> "parse", arg |-> [text |-> t, ci |-> ci],
                     res |-> None, done |-> FALSE] :
                       t \in AmountTexts, ci \in CommodityIndexes}
       \/ call \in {[op |-> "div", arg |-> [self |-> a, rhs |-> b],
                     res |-> [panic |-> FALSE, value |-> a], done |-> FALSE] :
                       a \in DivOperands, b \in DivOperands}
       \/ call \in {[op |-> "abs", arg |-> [self |-> a], res |-> a, res2 |-> a,
                     done |-> FALSE] : a \in DivOperands}

\* One call of Amount::parse
ParseAmount ==
    /\ call.op = "parse"
    /\ ~call.done
    /\ call' = [call EXCEPT !.res = AmountParse(call.arg.text, call.arg.ci),
                            !.done = TRUE]
    /\ UNCHANGED parserVars

\* One evaluation of self / rhs
Divide ==
    /\ call.op = "div"
    /\ ~call.done
    /\ IF DivPanics(call.arg.self, call.arg.rhs)
       THEN call' = [call EXCEPT !.res.panic = TRUE, !.done = TRUE]
       ELSE \E r \in DivOp(call.arg.self, call.arg.rhs) :
               call' = [call EXCEPT !.res.value = r, !.done = TRUE]
    /\ UNCHANGED parserVars

\* self.abs(), and abs() of its result
TakeAbs ==
    /\ call.op = "abs"
    /\ ~call.done
    /\ call' = [call EXCEPT !.res = AmountAbs(call.arg.self),
                            !.res2 = AmountAbs(AmountAbs(call.arg.self)),
                            !.done = TRUE]
    /\ UNCHANGED parserVars

AmountNext == ParseAmount \/ Divide \/ TakeAbs

AmountSpec == AmountInit /\ [][AmountNext]_vars

\* ------------------------------------------------------ process_arguments
MaxArgs == 4

\* arg.starts_with('-') and arg.starts_with("--")
StartsWithDash(arg) == Len(arg) >= 1 /\ arg[1] = "-"
StartsWithTwoDashes(arg) == Len(arg) >= 2 /\ arg[1] = "-" /\ arg[2] = "-"

\* A plausible slip: the leading '-' is not skipped
OptionQueue_KeepDash(arg) == [i \in 1 .. Len(arg) |-> <<"-", arg[i]>>]

\* option_queue: "-c" for every character c of arg after the first
OptionQueue(arg) == [i \in 1 .. (Len(arg) - 1) |-> <<"-", arg[i + 1]>>]

\* The loop over option_queue: every option takes iter.next() as its value;
\* it panics when the iterator is exhausted. pos is the number of arguments
\* the iterator has yielded.
RECURSIVE ReadValues(_, _, _, _)
ReadValues(option_queue, args, pos, options) ==
    IF option_queue = <<>>
    THEN [panic |-> "none", pos |-> pos, options |-> options]
    ELSE IF pos < Len(args)
         THEN ReadValues(Tail(option_queue), args, pos + 1,
                         Push(Push(options, Head(option_queue)), args[pos + 1]))
         ELSE [panic |-> "MissingOptionArgument", pos |-> pos, options |-> options]

\* The while loop of process_arguments from iterator position pos on
RECURSIVE ProcessLoop(_, _, _, _)
ProcessLoop(args, pos, commands, options) ==
    IF pos >= Len(args)
    THEN [panic |-> "none", commands |-> commands, options |-> options]
    ELSE LET arg == args[pos + 1]
         IN  IF ~StartsWithDash(arg)
             THEN ProcessLoop(args, pos + 1, Push(commands, arg), options)
             ELSE IF StartsWithTwoDashes(arg)
             THEN [panic |-> "Todo", commands |-> <<>>, options |-> <<>>]
             ELSE LET r == ReadValues(OptionQueue(arg), args, pos + 1, options)
                  IN  IF r.panic # "none"
                      THEN [panic |-> r.panic, commands |-> <<>>, options |-> <<>>]
                      ELSE ProcessLoop(args, r.pos, commands, r.options)

\* process_arguments(args): (commands, options), or a panic
ProcessArguments(args) == ProcessLoop(args, 0, <<>>, <<>>)

\* The arguments of the tests of option.rs, by their shape, and further
\* shapes: a lone '-', a long option, "--"
ArgWords ==
    { <<"c">>, <<"v">>, <<"-", "f">>, <<"-", "a", "b">>,
      <<"-">>, <<"-", "-", "x">>, <<"-", "-">> }

ArgLists == UNION {[1 .. n -> ArgWords] : n \in 0 .. MaxArgs}

OptionInit ==
    /\ ParserInit
    /\ call \in {[op |-> "process_arguments", arg |-> a,
                  res |-> [panic |-> "none", commands |-> <<>>, options |-> <<>>],
                  done |-> FALSE] : a \in ArgLists}

\* One call of process_arguments
ProcessArgumentsCall ==
    /\ call.op = "process_arguments"
    /\ ~call.done
    /\ call' = [call EXCEPT !.res = ProcessArguments(call.arg), !.done = TRUE]
    /\ UNCHANGED parserVars

OptionNext == ProcessArgumentsCall

OptionSpec == OptionInit /\ [][OptionNext]_vars

\* ============================================================ properties
XactIndices == Indices(journal.xacts)
PostIndices == Indices(journal.posts)
PostsOf(x) == Get(journal.xacts, x).posts
Range(v) == {v[i] : i \in 1 .. Len(v)}

\* The input line of Post p had no amount text / had a decimal literal
Elided(p) == Get(cited, p).quantity = <<>>
Explicit(p) == IsSome(DecimalFromStrExact(Get(cited, p).quantity))

\* Sum of the quantities of the posts of ps (a sequence of PostIndex) other
\* than post e, each of which has an amount
RECURSIVE SumOthers(_, _)
SumOthers(ps, e) ==
    IF ps = <<>> THEN Dec(0, 0)
    ELSE IF Head(ps) = e \/ IsNone(Get(journal.posts, Head(ps)).amount)
         THEN SumOthers(Tail(ps), e)
         ELSE DecAdd(Unwrap(Get(journal.posts, Head(ps)).amount).quantity,
                     SumOthers(Tail(ps), e))

\* Xact x has exactly one amount-less posting line, N >= 1 lines with an
\* amount, and these all cite the same commodity symbol
OneElidedSameCommodity(x) ==
    LET ps == Range(PostsOf(x))
    IN  /\ Cardinality({p \in ps : Elided(p)}) = 1
        /\ \E p \in ps : Explicit(p)
        /\ \A p \in ps : Elided(p) \/ Explicit(p)
        /\ \A p, q \in ps :
             Explicit(p) /\ Explicit(q) => Get(cited, p).commodity = Get(cited, q).commodity

\* C1: after a transaction with exactly one amount-less posting and N >= 1
\* postings with amounts of one commodity has been parsed, the amount-less
\* posting holds the negation of the sum of the others, with their commodity,
\* and all amounts of the transaction sum to zero.
C1_ElidedIsNegatedSum ==
    \A x \in XactIndices :
      (x \in ended /\ OneElidedSameCommodity(x)) =>
        LET ps == PostsOf(x)
            e  == CHOOSE p \in Range(ps) : Elided(p)
            o  == CHOOSE p \in Range(ps) : Explicit(p)
            a  == Get(journal.posts, e).amount
        IN  /\ IsSome(a)
            /\ DecEq(Unwrap(a).quantity, DecNeg(SumOthers(ps, e)))
            /\ Unwrap(a).commodity_index = Unwrap(Get(journal.posts, o).amount).commodity_index
            /\ DecIsZero(SumOthers(ps, 0 - 1))

\* The amount-less postings of Xact x, in input order
ElidedOf(x) == SelectSeq(PostsOf(x), Elided)

\* C2: a transaction with two amount-less posting lines ends the parse in the
\* fatal DoubleNullPost condition, and its second amount-less posting never
\* gets an amount.
C2_SecondElidedIsFatal ==
    \A x \in XactIndices :
      Len(ElidedOf(x)) >= 2 =>
        /\ pc = "Panicked"
        /\ panicKind = "DoubleNullPost"
        /\ IsNone(Get(journal.posts, ElidedOf(x)[2]).amount)

\* C3: the Balancer has run exactly once on every transaction whose body has
\* ended, and not at all on a transaction whose body has not ended.
C3_BalancerOnceAfterBody ==
    \A x \in XactIndices :
      /\ x \in ended => Get(finCount, x) = 1
      /\ x \notin ended => Get(finCount, x) = 0

\* Xact x has two posting lines with amounts that cite two different commodities
TwoCommodities(x) ==
    \E p, q \in Range(PostsOf(x)) :
      /\ Explicit(p) /\ Explicit(q)
      /\ Get(cited, p).commodity # "" /\ Get(cited, q).commodity # ""
      /\ Get(cited, p).commodity # Get(cited, q).commodity

\* C4: once a transaction has explicit postings in two different commodities,
\* the parse has ended in the fatal CommodityMismatch condition and no posting
\* of the transaction has an inferred amount.
C4_MismatchAbortsWithoutInference ==
    \A x \in XactIndices :
      TwoCommodities(x) =>
        /\ pc = "Panicked"
        /\ panicKind = "CommodityMismatch"
        /\ Range(PostsOf(x)) \cap inferred = {}

\* C5: the fatal CommodityMismatch condition is raised only for two distinct
\* present commodities: when it was raised, the running transaction holds two
\* amounts with different commodity indices, both present.
C5_AbsentCommodityAddable ==
    panicKind = "CommodityMismatch" =>
      \E p, q \in Range(PostsOf(cur)) :
        LET a == Get(journal.posts, p).amount
            b == Get(journal.posts, q).amount
        IN  /\ IsSome(a) /\ IsSome(b)
            /\ IsSome(Unwrap(a).commodity_index)
            /\ IsSome(Unwrap(b).commodity_index)
            /\ Unwrap(a).commodity_index # Unwrap(b).commodity_index

\* C6: after a failed read the stream is not read again, and read does not
\* return a Journal holding what was parsed before the failure.
C6_IoErrorStopsParse ==
    ioFailed =>
      /\ ~readAfterFail
      /\ ~(pc = "Done" /\ Len(journal.xacts) > 0)

\* Number of positions of sequence v that hold e
Count(v, e) == Cardinality({i \in 1 .. Len(v) : v[i] = e})

\* Handles held by an Option<Amount> refer to the Commodities arena
AmountHandleOk(a) ==
    (IsSome(a) /\ IsSome(Unwrap(a).commodity_index)) =>
        Unwrap(Unwrap(a).commodity_index) \in Indices(journal.commodities)

\* C7: every Post is listed exactly once in the posts of its Xact and exactly
\* once in the post_indices of its Account, in no other Xact or Account, and
\* every handle stored in the Journal refers to an existing arena entry.
C7_PostsLinkedOnce ==
    /\ \A p \in PostIndices :
         LET post == Get(journal.posts, p)
         IN  /\ post.xact_index \in XactIndices
             /\ post.account_index \in Indices(journal.accounts)
             /\ AmountHandleOk(post.amount)
             /\ AmountHandleOk(post.cost)
             /\ \A x \in XactIndices :
                  Count(PostsOf(x), p) = IF x = post.xact_index THEN 1 ELSE 0
             /\ \A a \in Indices(journal.accounts) :
                  Count(Get(journal.accounts, a).post_indices, p) =
                     IF a = post.account_index THEN 1 ELSE 0
    /\ \A x \in XactIndices : Range(PostsOf(x)) \subseteq PostIndices
    /\ \A a \in Indices(journal.accounts) :
         Range(Get(journal.accounts, a).post_indices) \subseteq PostIndices

\* Witness of C7: two transactions, three postings, an account cited twice
C7_Witness ==
    /\ Len(journal.xacts) = 2
    /\ Len(journal.posts) = 3
    /\ Len(PostsOf(1)) >= 1
    /\ \E a \in Indices(journal.accounts) : Len(Get(journal.accounts, a).post_indices) = 2
    /\ Len(journal.commodities) >= 1
    /\ pc = "Done"

\* The symbol behind an Option<CommodityIndex>, "" for None
SymbolOf(ci) == IF IsSome(ci) THEN Get(journal.commodities, Unwrap(ci)).symbol ELSE ""

\* The commodity symbols cited by the first n posting lines
CitedSymbols(n) ==
    ({Get(cited, p).commodity : p \in 0 .. (n - 1)}
       \cup {Get(cited, p).cost_commodity : p \in 0 .. (n - 1)}) \ {""}

\* C8: a posting's amount and cost carry the index of the symbol its line
\* cites (none when it cites none), the pool holds each cited symbol exactly
\* once and nothing else, and the first symbol cited has index 0.
C8_CommoditiesInterned ==
    /\ \A p \in PostIndices :
         LET post == Get(journal.posts, p)
         IN  /\ (IsSome(post.amount) /\ p \notin inferred) =>
                   /\ IsSome(Unwrap(post.amount).commodity_index) <=> Get(cited, p).commodity # ""
                   /\ SymbolOf(Unwrap(post.amount).commodity_index) = Get(cited, p).commodity
             /\ IsSome(post.cost) =>
                   /\ IsSome(Unwrap(post.cost).commodity_index) <=> Get(cited, p).cost_commodity # ""
                   /\ SymbolOf(Unwrap(post.cost).commodity_index) = Get(cited, p).cost_commodity
    /\ \A c, d \in Indices(journal.commodities) :
         Get(journal.commodities, c).symbol = Get(journal.commodities, d).symbol => c = d
    /\ {Get(journal.commodities, c).symbol : c \in Indices(journal.commodities)}
          = CitedSymbols(Len(cited))
    /\ \A p \in PostIndices :
         (CitedSymbols(p) = {} /\ CitedSymbols(p + 1) # {}) =>
            Get(journal.commodities, 0).symbol =
               IF Get(cited, p).commodity # "" THEN Get(cited, p).commodity
               ELSE Get(cited, p).cost_commodity

\* Witness of C8: the symbol EUR cited by two postings (once as amount
\* commodity, once as price commodity), another symbol, and a posting that
\* cites none
C8_Witness ==
    /\ Len(journal.commodities) >= 2
    /\ \E p, q \in PostIndices :
         /\ p # q
         /\ IsSome(Get(journal.posts, p).amount)
         /\ Get(cited, p).commodity = "EUR"
         /\ IsSome(Get(journal.posts, q).cost)
         /\ Get(cited, q).cost_commodity = "EUR"
         /\ Unwrap(Get(journal.posts, p).amount).commodity_index =
               Unwrap(Get(journal.posts, q).cost).commodity_index
    /\ \E p \in PostIndices : Get(cited, p).commodity = "" /\ Get(cited, p).cost_commodity = ""

\* arena w extends arena v: keys are the identifying fields of the entries
Grows(v, w) ==
    /\ Len(w) >= Len(v)
    /\ \A i \in 1 .. Len(v) : w[i] = v[i]

AccountIdentities(j) == [i \in 1 .. Len(j.accounts) |-> j.accounts[i].name]
CommodityIdentities(j) == [i \in 1 .. Len(j.commodities) |-> j.commodities[i].symbol]
XactIdentities(j) == [i \in 1 .. Len(j.xacts) |-> <<j.xacts[i].date, j.xacts[i].payee>>]
PostIdentities(j) ==
    [i \in 1 .. Len(j.posts) |-> <<j.posts[i].account_index, j.posts[i].xact_index>>]

\* C9: every step leaves each arena at least as long as before, and every
\* index issued before the step denotes the same entity after it.
C9_ArenasAppendOnly ==
    [][ /\ Grows(AccountIdentities(journal), AccountIdentities(journal'))
        /\ Grows(CommodityIdentities(journal), CommodityIdentities(journal'))
        /\ Grows(XactIdentities(journal), XactIdentities(journal'))
        /\ Grows(PostIdentities(journal), PostIdentities(journal')) ]_vars

\* Witness of C9: a second transaction with another payee was added after
\* postings, accounts and commodities existed
C9_Witness ==
    /\ Len(journal.xacts) = 2
    /\ Get(journal.xacts, 0).payee # Get(journal.xacts, 1).payee
    /\ Len(journal.posts) >= 2
    /\ Len(journal.accounts) >= 2
    /\ Len(journal.commodities) >= 2

StrictlyIncreasing(v) == \A i, k \in 1 .. Len(v) : i < k => v[i] < v[k]
IsPrefix(v, w) == Len(v) <= Len(w) /\ SubSeq(w, 1, Len(v)) = v

\* C10: posts of every Xact and post_indices of every Account are strictly
\* increasing (input order), and a step only appends to them.
C10_InputOrderKept ==
    [][ /\ \A x \in Indices(journal.xacts) :
             IsPrefix(Get(journal.xacts, x).posts, Get(journal'.xacts, x).posts)
        /\ \A a \in Indices(journal.accounts) :
             IsPrefix(Get(journal.accounts, a).post_indices,
                      Get(journal'.accounts, a).post_indices)
        /\ \A x \in Indices(journal'.xacts) :
             StrictlyIncreasing(Get(journal'.xacts, x).posts)
        /\ \A a \in Indices(journal'.accounts) :
             StrictlyIncreasing(Get(journal'.accounts, a).post_indices) ]_vars

\* Witness of C10: an account cited from two transactions, a transaction
\* with two postings, one of them resolved by the Balancer
C10_Witness ==
    /\ Len(journal.xacts) = 2
    /\ \E x \in XactIndices : Len(PostsOf(x)) = 2
    /\ \E a \in Indices(journal.accounts) :
         LET pi == Get(journal.accounts, a).post_indices
         IN  /\ Len(pi) = 2
             /\ Get(journal.posts, pi[1]).xact_index # Get(journal.posts, pi[2]).xact_index
    /\ inferred # {}

\* The journal a posting line leaves before the Balancer runs on it: the
\* state the run of finalize_indexed in this step started from
BeforeBalancer == ParsePost(journal, cited'[Len(cited')], cur)

\* Posts of journal j whose amount differs from that in journal k
AmountChanged(j, k) == {p \in Indices(j.posts) : Get(j.posts, p).amount # Get(k.posts, p).amount}

\* C11: a run of the Balancer changes at most the amount of one Post of its
\* transaction, absent before the run; nothing else of the Journal changes,
\* and nothing at all when no posting of the transaction lacks an amount.
C11_BalancerFrame ==
    [][ Len(cited') > Len(cited) =>
          LET b == BeforeBalancer
              a == journal'
              ch == AmountChanged(b, a)
          IN  /\ a.accounts = b.accounts
              /\ a.xacts = b.xacts
              /\ a.commodities = b.commodities
              /\ Len(a.posts) = Len(b.posts)
              /\ \A p \in Indices(b.posts) :
                   /\ Get(a.posts, p).cost = Get(b.posts, p).cost
                   /\ Get(a.posts, p).account_index = Get(b.posts, p).account_index
                   /\ Get(a.posts, p).xact_index = Get(b.posts, p).xact_index
              /\ Cardinality(ch) <= 1
              /\ \A p \in ch :
                   /\ IsNone(Get(b.posts, p).amount)
                   /\ Get(b.posts, p).xact_index = cur
              /\ (\A p \in Range(Get(b.xacts, cur).posts) : IsSome(Get(b.posts, p).amount))
                   => a = b ]_vars

\* Witness of C11: the Balancer has set the amount of one of three postings,
\* after a transaction that needed no inference
C11_Witness ==
    /\ Len(journal.xacts) = 2
    /\ Len(PostsOf(1)) = 2
    /\ Cardinality(inferred) = 1
    /\ \E p \in PostIndices : IsSome(Get(journal.posts, p).cost)
    /\ pc = "InXact"

\* C12: after an indented line starting with ';' in a transaction body the
\* parser is still in the body, no fatal condition was raised and the current
\* Xact has a note.
C12_BodyNoteAttached ==
    last = " ;" =>
      /\ pc = "InXact"
      /\ panicKind = "none"
      /\ IsSome(Get(journal.xacts, cur).note)

\* C13: after a blank line, ended by "\n" or by "\r\n", the parser is at
\* TopLevel and no fatal condition was raised.
C13_BlankLineEndsBody ==
    last \in {"\n", "\r\n"} =>
      /\ pc = "TopLevel"
      /\ panicKind = "none"

CommentChars == {";", "#", "*", "|"}

\* C14: a TopLevel line starting with ';', '#', '*' or '|' leaves the Journal
\* as it was and the parser at TopLevel, ready for the next line.
C14_TopCommentSkipped ==
    [][ (pc = "TopLevel" /\ last' \in CommentChars) =>
          /\ journal' = journal
          /\ pc' = "TopLevel"
          /\ panicKind' = "none"
          /\ <<cur, eofSeen, ioErrors>>' = <<cur, eofSeen, ioErrors>> ]_vars

\* Witness of C14: a comment line was skipped at TopLevel after a
\* transaction with postings
C14_Witness ==
    /\ last \in CommentChars
    /\ pc = "TopLevel"
    /\ Len(journal.xacts) = 1
    /\ Len(journal.posts) = 2

\* ---- parse_xact_header
HeaderDone == call.op = "parse_xact_header" /\ call.done

TermPositions(line) == {i \in 1 .. Len(line) : line[i] \in {"=", " "}}
Least(S) == CHOOSE i \in S : \A k \in S : i <= k
SpacesAfter(line, k) == {m \in (k + 1) .. Len(line) : line[m] = " "}

\* C15: DATE is the text before the first '=' or ' ', or the whole line (the
\* other fields empty) when there is neither; AUXDATE is empty after ' ' and
\* is the text between '=' and the next ' ' after '='.
C15_DateAndAuxDate ==
    HeaderDone =>
      LET line == call.arg
          r == call.res
      IN  IF TermPositions(line) = {}
          THEN r = [panic |-> FALSE, tokens |-> <<line, <<>>, <<>>, <<>>>>]
          ELSE LET k == Least(TermPositions(line))
               IN  /\ line[k] = " " =>
                        /\ ~r.panic
                        /\ r.tokens[1] = SubSeq(line, 1, k - 1)
                        /\ r.tokens[2] = <<>>
                   /\ (line[k] = "=" /\ SpacesAfter(line, k) # {}) =>
                        /\ ~r.panic
                        /\ r.tokens[1] = SubSeq(line, 1, k - 1)
                        /\ r.tokens[2] = SubSeq(line, k + 1, Least(SpacesAfter(line, k)) - 1)

\* Witness of C15: a header with date, auxiliary date and more text was tokenized
C15_Witness ==
    /\ HeaderDone
    /\ ~call.res.panic
    /\ call.res.tokens[1] # <<>>
    /\ call.res.tokens[2] # <<>>
    /\ call.res.tokens[3] # <<>>

\* C16: a header DATE=AUXDATE whose auxiliary date runs to the end of the
\* line is tokenized to [DATE, AUXDATE, "", ""] without failing.
C16_AuxDateToEndOfLine ==
    HeaderDone =>
      LET line == call.arg
      IN  (TermPositions(line) # {} /\ line[Least(TermPositions(line))] = "="
             /\ SpacesAfter(line, 0) = {}) =>
            LET k == Least(TermPositions(line))
            IN  call.res = [panic |-> FALSE,
                            tokens |-> <<SubSeq(line, 1, k - 1),
                                         SubSeq(line, k + 1, Len(line)), <<>>, <<>>>>]

\* t is s without its leading and trailing spaces
IsTrimOf(t, s) ==
    /\ \E a, b \in 0 .. Len(s) :
         /\ a + Len(t) + b = Len(s)
         /\ SubSeq(s, a + 1, a + Len(t)) = t
         /\ \A i \in (1 .. a) \cup ((Len(s) - b + 1) .. Len(s)) : s[i] = " "
    /\ t # <<>> => (t[1] # " " /\ t[Len(t)] # " ")

\* 1-based position of the ' ' that ends the date section of line; 0 when
\* the date section runs to the end of the line
SectionEnd(line) ==
    IF TermPositions(line) = {} THEN 0
    ELSE LET k == Least(TermPositions(line))
         IN  IF line[k] = " " THEN k
             ELSE IF SpacesAfter(line, k) = {} THEN 0
             ELSE Least(SpacesAfter(line, k))

SepPositions(line, e) ==
    {q \in e .. (Len(line) - 2) : line[q] = " " /\ line[q + 1] = " " /\ line[q + 2] = ";"}

\* C17: the text after the date section is split at the first "  ;": PAYEE
\* is the trimmed text before it, NOTE the trimmed text after the ';';
\* without a separator PAYEE is the trimmed remainder and NOTE is empty. No
\* field starts or ends with a space.
C17_PayeeAndNote ==
    HeaderDone =>
      LET line == call.arg
          r == call.res
          e == SectionEnd(line)
      IN  /\ e > 0 =>
               /\ ~r.panic
               /\ IF SepPositions(line, e) # {}
                  THEN LET q == Least(SepPositions(line, e))
                       IN  /\ IsTrimOf(r.tokens[3], SubSeq(line, e, q - 1))
                           /\ IsTrimOf(r.tokens[4], SubSeq(line, q + 3, Len(line)))
                  ELSE /\ IsTrimOf(r.tokens[3], SubSeq(line, e, Len(line)))
                       /\ r.tokens[4] = <<>>
          /\ ~r.panic =>
               \A i \in 1 .. 4 :
                 r.tokens[i] # <<>> =>
                    (r.tokens[i][1] # " " /\ r.tokens[i][Len(r.tokens[i])] # " ")

\* Witness of C17: a header with payee and note, split at the separator
C17_Witness ==
    /\ HeaderDone
    /\ ~call.res.panic
    /\ SepPositions(call.arg, 1) # {}
    /\ call.res.tokens[3] # <<>>
    /\ call.res.tokens[4] # <<>>

\* ---- transaction start
\* The step read a TopLevel line that starts with a digit
DigitLineStep == pc = "TopLevel" /\ last' = "2" /\ linesRead' = linesRead + 1

\* The step appended one Xact without postings, whose payee is the header's
\* payee text or "Unknown Payee" when there is none, and entered the body
XactStarted ==
    /\ Len(journal'.xacts) = Len(journal.xacts) + 1
    /\ SubSeq(journal'.xacts, 1, Len(journal.xacts)) = journal.xacts
    /\ Len(hdrs') = Len(journal'.xacts)
    /\ LET x == journal'.xacts[Len(journal'.xacts)]
           h == hdrs'[Len(hdrs')]
       IN  /\ x.posts = <<>>
           /\ x.payee = IF h.payee = "" THEN "Unknown Payee" ELSE h.payee
    /\ pc' = "InXact"
    /\ \A i \in 1 .. Len(journal'.xacts) : journal'.xacts[i].payee # ""

Unsigned(t) == IF t # <<>> /\ t[1] \in {"+", "-"} THEN Tail(t) ELSE t

DotPositions(t) == {i \in 1 .. Len(t) : t[i] = "."}

\* The text is a decimal literal: an optional sign, then digits with at most
\* one '.' among them, and at least one digit
IsDecimalLiteral(t) ==
    LET u == Unsigned(t)
    IN  /\ \A i \in 1 .. Len(u) : u[i] \in Digits \cup {"."}
        /\ Cardinality(DotPositions(u)) <= 1
        /\ \E i \in 1 .. Len(u) : u[i] \in Digits

\* The number of characters of the literal after its '.'
LiteralDecimals(t) ==
    LET u == Unsigned(t)
    IN  IF DotPositions(u) = {} THEN 0
        ELSE Len(u) - (CHOOSE i \in DotPositions(u) : TRUE)

\* The whole number written by the digits of the literal without its '.':
\* each digit weighs ten to the number of digits to its right
LiteralUnits(t) ==
    LET u      == Unsigned(t)
        ds     == {i \in 1 .. Len(u) : u[i] \in Digits}
        after(i) == Cardinality({k \in ds : k > i})
        RECURSIVE sum(_)
        sum(S) == IF S = {} THEN 0
                  ELSE LET i == CHOOSE k \in S : TRUE
                       IN  DigitVal(u[i]) * Pow10(after(i)) + sum(S \ {i})
        v      == sum(ds)
    IN  IF t[1] = "-" THEN 0 - v ELSE v

ParseDone == call.op = "parse" /\ call.done

DivDone == call.op = "div" /\ call.done

\* q is a / b: exactly, or, when q has DivPrecision decimal places, to
\* less than one unit of the last place
IsQuotient(q, a, b) ==
    LET l == q.m * b.m * Pow10(a.s)
        r == a.m * Pow10(q.s + b.s)
    IN  \/ l = r
        \/ /\ q.s = DivPrecision
           /\ ~ \E s \in 0 .. DivPrecision :
                   (AbsInt(a.m) * Pow10(s + b.s)) % (AbsInt(b.m) * Pow10(a.s)) = 0
           /\ AbsInt(l - r) < AbsInt(b.m) * Pow10(a.s)

\* C20: a / b with both quantities non-zero has quantity a / b and the
\* commodity of the operand that has one when exactly one operand lacks a
\* commodity, the left operand's commodity otherwise; with a zero quantity
\* on either side the division aborts without a result.
C20_DivCommodityAndZero ==
    DivDone =>
      LET a == call.arg.self
          b == call.arg.rhs
          r == call.res
      IN  IF DecIsZero(a.quantity) \/ DecIsZero(b.quantity)
          THEN r.panic
          ELSE /\ ~r.panic
               /\ IsQuotient(r.value.quantity, a.quantity, b.quantity)
               /\ r.value.commodity_index =
                    IF IsNone(a.commodity_index) /\ IsSome(b.commodity_index)
                    THEN b.commodity_index
                    ELSE IF IsSome(a.commodity_index) /\ IsNone(b.commodity_index)
                    THEN a.commodity_index
                    ELSE a.commodity_index

\* Witness of C20: the left operand lacks a commodity, the right one has one
C20_Witness ==
    /\ DivDone
    /\ ~call.res.panic
    /\ IsNone(call.arg.self.commodity_index)
    /\ call.arg.rhs.commodity_index = Some(1)
    /\ call.res.value.commodity_index = Some(1)
    /\ call.arg.self.quantity = Dec(3, 0)
    /\ call.arg.rhs.quantity = Dec(0 - 2, 1)
    /\ call.res.value.quantity = Dec(0 - 15, 0)

\* ---- process_arguments
ArgsDone == call.op = "process_arguments" /\ call.done

\* The argument is '-' followed by option letters only (no second '-')
IsShortOption(arg) == StartsWithDash(arg) /\ ~StartsWithTwoDashes(arg)
IsLongOption(arg) == StartsWithTwoDashes(arg)

\* The position after the argument at position i and, if it is a short
\* option of k letters, after the k arguments that follow it
AfterArg(args, i) ==
    IF IsShortOption(args[i]) THEN i + Len(args[i]) ELSE i + 1

\* The positions (from 1) of the arguments that are not option values
RECURSIVE HeadsFrom(_, _)
HeadsFrom(args, i) ==
    IF i > Len(args) THEN {} ELSE {i} \cup HeadsFrom(args, AfterArg(args, i))

Heads(args) == HeadsFrom(args, 1)

\* The elements of v at the positions of P, in order
RECURSIVE Pick(_, _, _)
Pick(v, P, i) ==
    IF i > Len(v) THEN <<>>
    ELSE (IF i \in P THEN <<v[i]>> ELSE <<>>) \o Pick(v, P, i + 1)

\* The pairs ('-' + letter, following argument) of the option at position i
PairsOf(args, i) ==
    LET k == Len(args[i]) - 1
    IN  [n \in 1 .. 2 * k |->
           IF n % 2 = 1 THEN <<"-", args[i][(n + 1) \div 2 + 1]>>
           ELSE args[i + n \div 2]]

RECURSIVE AllPairs(_, _)
AllPairs(args, i) ==
    IF i > Len(args) THEN <<>>
    ELSE IF i \in Heads(args) /\ IsShortOption(args[i])
         THEN PairsOf(args, i) \o AllPairs(args, i + 1)
         ELSE AllPairs(args, i + 1)

\* The first option (not an option value) that makes the call fail, 0 if none
FirstFailing(args) ==
    LET F == {i \in Heads(args) :
                \/ IsLongOption(args[i])
                \/ IsShortOption(args[i]) /\ AfterArg(args, i) - 1 > Len(args)}
    IN  IF F = {} THEN 0 ELSE CHOOSE i \in F : \A k \in F : i <= k

\* C21: process_arguments returns as commands, in input order, every
\* argument that does not start with '-' and is not an option value; an
\* argument of '-' and k letters takes the k following arguments and appends
\* ('-' + letter, value) for each letter in order, so options has even length
\* and alternates option and value; with fewer than k arguments following it
\* fails with the missing-option-argument panic instead of returning.
C21_CommandsAndOptionPairs ==
    ArgsDone =>
      LET args == call.arg
          r    == call.res
          f    == FirstFailing(args)
      IN  /\ f = 0 =>
                /\ r.panic = "none"
                /\ r.commands =
                     Pick(args, {i \in Heads(args) : ~StartsWithDash(args[i])}, 1)
                /\ r.options = AllPairs(args, 1)
                /\ Len(r.options) % 2 = 0
                /\ \A n \in 1 .. Len(r.options) :
                     n % 2 = 1 => Len(r.options[n]) = 2 /\ r.options[n][1] = "-"
          /\ (f # 0 /\ IsShortOption(args[f])) => r.panic = "MissingOptionArgument"
          /\ r.panic = "MissingOptionArgument" => f # 0 /\ IsShortOption(args[f])

\* Witness of C21: "cmd -ab value value" with a command after the values
C21_Witness ==
    /\ ArgsDone
    /\ call.arg = << <<"c">>, <<"-", "a", "b">>, <<"v">>, <<"-", "f">> >>
    /\ call.res.panic = "none"
    /\ call.res.commands = << <<"c">> >>
    /\ call.res.options = << <<"-", "a">>, <<"v">>, <<"-", "b">>, <<"-", "f">> >>

\* ---- amount-less and unparsable postings
\* C22: when the amount-less posting is the only posting of a transaction,
\* the Balancer completes without a fatal condition and sets its amount to
\* the inverse of the empty total: a zero quantity with no commodity.
C22_OnlyElidedResolvesToZero ==
    \A x \in XactIndices :
      (Len(PostsOf(x)) = 1 /\ Elided(Get(PostsOf(x), 0)) /\ Get(finCount, x) >= 1) =>
        LET a == Get(journal.posts, Get(PostsOf(x), 0)).amount
        IN  /\ ~(pc = "Panicked" /\ cur = x)
            /\ IsSome(a)
            /\ DecIsZero(Unwrap(a).quantity)
            /\ IsNone(Unwrap(a).commodity_index)

\* The input line of Post p had an amount text that is not a decimal literal
Unparsable(p) == ~Elided(p) /\ ~IsDecimalLiteral(Get(cited, p).quantity)

\* C23 as stated: a posting whose amount text is present but is not a
\* decimal literal is never stored with an absent amount and never receives
\* an amount inferred by the Balancer.
C23_UnparsableNeverElided ==
    \A p \in PostIndices :
      Unparsable(p) => IsSome(Get(journal.posts, p).amount) /\ p \notin inferred

\* C23 as amended: a posting whose amount text is a decimal literal holds
\* the literal's amount and never receives an inferred one; a posting
\* without amount text, or whose amount text is not a decimal literal, has
\* an absent amount unless the Balancer has inferred it.
C23_AbsentAmountIsElided ==
    \A p \in PostIndices :
      LET t == Get(cited, p).quantity
          a == Get(journal.posts, p).amount
      IN  IF ~Elided(p) /\ IsDecimalLiteral(t)
          THEN /\ p \notin inferred
               /\ IsSome(a)
               /\ Unwrap(a).quantity = Dec(LiteralUnits(t), LiteralDecimals(t))
          ELSE IsNone(a) \/ p \in inferred

\* Witness of C23: a posting with the amount text " " got an inferred amount
C23_Witness ==
    \E p \in PostIndices :
      /\ Get(cited, p).quantity = <<" ">>
      /\ p \in inferred
      /\ IsSome(Get(journal.posts, p).amount)
      /\ \E q \in PostIndices : q # p /\ Explicit(q)
                                 /\ Get(journal.posts, q).xact_index = Get(journal.posts, p).xact_index

\* ---- Amount::abs
AbsDone == call.op = "abs" /\ call.done

\* C24: Amount::abs returns the receiver's commodity with the absolute value
\* of the receiver's quantity: the result is never negative, it equals the
\* receiver when the receiver is not negative, and abs(abs(a)) = abs(a).
C24_AbsIsAbsoluteValue ==
    AbsDone =>
      LET a == call.arg.self
          r == call.res
      IN  /\ r.commodity_index = a.commodity_index
          /\ r.quantity.m >= 0
          /\ DecEq(r.quantity, Dec(AbsInt(a.quantity.m), a.quantity.s))
          /\ a.quantity.m >= 0 => r = a
          /\ call.res2 = r

====
